---- MODULE Spec2Model ----
(***************************************************************************)
(* Streak detection of the Chess.com scraper                               *)
(* (src/data_layer/scraping): analyze_player_streaks / detect_win_streaks  *)
(* with the stats cache (Spec), the player loop of main.py (SpecRun,       *)
(* SpecOrder), the HTTP client's get_json (SpecHttp, and SpecHttpLive for  *)
(* termination), fetch_titled_players (SpecTitled), and harnesses that     *)
(* apply the helpers of probability.py, chess_api.py and                   *)
(* streak_analyzer.py to enumerated inputs (SpecClassify, SpecDispatch,    *)
(* SpecPerspective, SpecRd, SpecEstimate, SpecStreakProb, SpecMonths,      *)
(* SpecWindow).                                                            *)
(*                                                                         *)
(* Value conventions                                                       *)
(*   - Python None is NoneInt where an int is expected and NoneStr where a *)
(*     str is expected.                                                    *)
(*   - A float is written [n, d, e, u]: the double u units in the last    *)
(*     place above (below, for u < 0) the double nearest to the real       *)
(*     n/d * (1e-15)^e.  e counts the factors 1e-15 the lower clamp of     *)
(*     calculate_streak_probability introduces; u carries the rounding of  *)
(*     math.exp(sum of math.log).  A Glicko expectancy, which needs sqrt   *)
(*     and exp, is drawn from ProbGrid.                                    *)
(*   - A dict is a function; dict.get(k, default) is Get(d, k, default).   *)
(***************************************************************************)
EXTENDS Integers, Sequences, FiniteSets, TLC

VARIABLES
    pc,                         \* "ready" | "running" | "returned" | "raised"
    player,                     \* PlayerInfo passed to analyze_player_streaks
    games,                      \* the game list passed in
    thresholds,                 \* the (label, cutoff) list passed in
    stats_cache,                \* Dict[str, dict] shared with the caller
    i,                          \* position of the for loop (next game)
    streaks,                    \* detect_win_streaks local
    current_streak_games,       \* detect_win_streaks local
    current_win_probabilities,  \* detect_win_streaks local
    streak_start_time,          \* detect_win_streaks local
    result,                     \* value returned by analyze_player_streaks
    exc,                        \* exception type that ended the call
    fetch_log,                  \* usernames passed to fetch_player_stats
    detect_called,              \* detect_win_streaks was entered
    classify_count,             \* calls of classify_streak_probability
    cache_at_call,              \* stats_cache when the call was made
    fcall,                      \* harness: pure function call under test
    fret                        \* harness: its return value

vars == <<pc, player, games, thresholds, stats_cache, i, streaks,
          current_streak_games, current_win_probabilities,
          streak_start_time, result, exc, fetch_log, detect_called,
          classify_count, cache_at_call, fcall, fret>>

detector == <<streaks, current_streak_games, current_win_probabilities,
              streak_start_time>>

----------------------------------------------------------------------------
(* Bounds *)

MaxGames == 4
MaxThresholds == 2
MaxProbs == 1
MaxAttempts == 5
MaxTitles == 2
MaxListing == 2
MaxArchives == 2
MaxMonthGames == 2
MaxDay == 100

----------------------------------------------------------------------------
(* Python values *)

NoneInt == -1
NoneStr == "None"
NoExc == "none"

EmptyDict == [k \in {} |-> 0]

Get(d, k, default) == IF k \in DOMAIN d THEN d[k] ELSE default

\* d[k] = v
SetItem(d, k, v) == [x \in DOMAIN d \cup {k} |-> IF x = k THEN v ELSE d[x]]

Falsy(s) == s \in {NoneStr, ""}

\* str.lower() on the usernames of the model
Lower(s) ==
    CASE s = "Me"  -> "me"
      [] s = "Bob" -> "bob"
      [] s = "OPP" -> "opp"
      [] OTHER     -> s

\* x or y   (ints: None and 0 are falsy)
PyOr(x, y) == IF x = NoneInt \/ x = 0 THEN y ELSE x

----------------------------------------------------------------------------
(* Rationals standing for floats *)

Rat(n, d) == [n |-> n, d |-> d, e |-> 0, u |-> 0]
Half == Rat(1, 2)
One == Rat(1, 1)
Zero == Rat(0, 1)
\* the doubles 1e-15, 1.0 - 1e-15 (nine units below 1.0) and
\* 0.9999999999999999 (the double next below 1.0)
Eps == [n |-> 1, d |-> 1, e |-> 1, u |-> 0]
OneMinusEps == [n |-> 1, d |-> 1, e |-> 0, u |-> -9]
AlmostOne == [n |-> 1, d |-> 1, e |-> 0, u |-> -1]

\* a <= b for a cutoff b = n/d (e = 0).  A value with a factor 1e-15 is
\* positive and below every positive n/d with d < 10^15; two values at
\* the same n/d are ordered by their units in the last place.
Leq(a, b) ==
    IF a.n = 0 THEN b.n >= 0
    ELSE IF a.e > 0 THEN b.n > 0
    ELSE \/ a.n * b.d < b.n * a.d
         \/ a.n * b.d = b.n * a.d /\ a.u <= b.u

\* a == b and a <= b on floats of the model (n/d in [1e-4, 2], a rounding
\* of less than 100 units)
FloatEq(a, b) == a.n * b.d = b.n * a.d /\ a.e = b.e /\ a.u = b.u

FloatLeq(a, b) ==
    IF a.e # b.e THEN a.e > b.e
    ELSE \/ a.n * b.d < b.n * a.d
         \/ a.n * b.d = b.n * a.d /\ a.u <= b.u

\* the double nearest to the real product of the reals a and b stand
\* next to (the rounding of the caller's computation is added by it)
Mul(a, b) == [n |-> a.n * b.n, d |-> a.d * b.d, e |-> a.e + b.e, u |-> 0]

RECURSIVE Pow10(_)
Pow10(k) == IF k = 0 THEN 1 ELSE 10 * Pow10(k - 1)

----------------------------------------------------------------------------
(* config.py *)

ELO_K_FACTOR == 400
DEFAULT_RETRIES == 3

\* THRESHOLDS of config.py, labels in ASCII
Threshold(l, c) == [label |-> l, cutoff |-> c]

THRESHOLDS == << Threshold("<=0.01%", Rat(1, 10000)),
                 Threshold("<=0.1%", Rat(1, 1000)),
                 Threshold("<=1%", Rat(1, 100)),
                 Threshold("<=5%", Rat(1, 20)) >>

----------------------------------------------------------------------------
(* probability.py *)

\* expected_win_prob_elo: 1 / (1 + 10 ** (-diff / 400)), exact when diff is
\* a multiple of 400 (the ratings of the model are 1500 and 1900)
expected_win_prob_elo(r_winner, r_loser) ==
    LET rating_diff == r_winner - r_loser
        k == rating_diff \div ELO_K_FACTOR
    IN  IF k >= 0 THEN Rat(Pow10(k), Pow10(k) + 1)
                  ELSE Rat(1, 1 + Pow10(0 - k))

\* Values a Glicko expectancy expit(g * (mu_w - mu_l)) can take; the model
\* does not evaluate sqrt/exp and lets the result be any of these.
ProbGrid == {Rat(1, 11), Rat(1, 2), Rat(10, 11)}

\* Python outcomes of a call of a probability function: None, a float, a
\* 3-tuple (probability, estimated winner rating, estimated loser rating),
\* or an exception
PyNone == [shape |-> "None", formula |-> "none", p |-> Zero,
           est_winner |-> NoneInt, est_loser |-> NoneInt, exc |-> NoExc]
PyFloat(f, q) == [shape |-> "float", formula |-> f, p |-> q,
                  est_winner |-> NoneInt, est_loser |-> NoneInt,
                  exc |-> NoExc]
PyRaise(e) == [shape |-> "raise", formula |-> "none", p |-> Zero,
               est_winner |-> NoneInt, est_loser |-> NoneInt, exc |-> e]

\* to_phi(float(rd) * rd_inflation_factor) == 0.0 with the default factor
\* 1.0: rd / 173.7178 is zero only for rd = 0
PhiIsZero(rd) == rd = 0

\* _estimate_pre_diff_from_post divides by phi_w_est ** 2 and by
\* phi_l_est ** 2 in its first iteration
EstimateRaises(rd_winner, rd_loser) ==
    PhiIsZero(rd_winner) \/ PhiIsZero(rd_loser)

\* `if rd_loser is None`
LoserRdUnknown(rd_winner, rd_loser) == rd_loser = NoneInt

\* expected_win_prob_glicko with rd_inflation_factor=1.0: the set of
\* outcomes of the call.  Every return statement returns a bare float or
\* None.
expected_win_prob_glicko_kw(r_winner, r_loser, rd_winner, rd_loser, estimate_pregame) ==
    IF r_winner = NoneInt \/ r_loser = NoneInt THEN {PyNone}
    ELSE IF LoserRdUnknown(rd_winner, rd_loser)
         THEN {PyFloat("elo", expected_win_prob_elo(r_winner, r_loser))}
    ELSE IF rd_winner = NoneInt
         THEN {PyFloat("glicko_single", q) : q \in
                 IF r_winner = r_loser THEN {Half} ELSE ProbGrid}
    ELSE IF estimate_pregame
         THEN IF EstimateRaises(rd_winner, rd_loser)
              THEN {PyRaise("ZeroDivisionError")}
              ELSE {PyFloat("symmetric_pre", q) : q \in ProbGrid}
    ELSE {PyFloat("symmetric_post", q) : q \in
            IF r_winner = r_loser THEN {Half} ELSE ProbGrid}

\* the call of detect_win_streaks: estimate_pregame keeps its default True
expected_win_prob_glicko(r_winner, r_loser, rd_winner, rd_loser) ==
    expected_win_prob_glicko_kw(r_winner, r_loser, rd_winner, rd_loser, TRUE)

\* a, b, c = value  succeeds only on an iterable of three items
Unpacks3(value) == value.shape = "tuple3"

\* classify_streak_probability as a loop over the list from position k
RECURSIVE classify_from(_, _, _)
classify_from(probability, thr, k) ==
    IF k > Len(thr) THEN NoneStr
    ELSE IF Leq(probability, thr[k].cutoff) THEN thr[k].label
    ELSE classify_from(probability, thr, k + 1)

\* Mutant: the label of the tightest cutoff that matches
classify_tightest(probability, thr) ==
    LET M == {k \in 1..Len(thr) : Leq(probability, thr[k].cutoff)}
    IN  IF M = {} THEN NoneStr
        ELSE thr[CHOOSE k \in M :
                   \A j \in M : Leq(thr[k].cutoff, thr[j].cutoff)].label

classify_streak_probability(probability, thr) ==
    classify_from(probability, thr, 1)

\* max(min(p, 1.0 - 1e-15), 1e-15): every n/d with 0 < n < d and
\* d < 10^15 lies strictly inside the clamp interval.
Clamp(p) ==
    LET above == p.n > p.d \/ (p.n = p.d /\ p.u > OneMinusEps.u)
        upper == IF above THEN OneMinusEps ELSE p
    IN  IF p.n <= 0 THEN Eps ELSE upper

\* the real product of the clamped probabilities
RECURSIVE log_prob_product(_)
log_prob_product(ps) ==
    IF ps = <<>> THEN One
    ELSE Mul(Clamp(Head(ps)), log_prob_product(Tail(ps)))

\* math.exp(math.log(c1) + ... + math.log(ck)) in IEEE doubles (CPython
\* 3.11, glibc 2.36, x86-64), as the distance in units in the last place
\* from the double nearest to the real product, for every list of up to
\* three of the clamped values 1e-15, 0.1, 0.5 and 1.0 - 1e-15 (the real
\* product counts 1.0 - 1e-15 as 1).  The lists are in lexicographic
\* order within each length, the values in the order given.
ClampedValues == <<Eps, Rat(1, 10), Half, OneMinusEps>>

ExpLogUlpsTable ==
    << 6, 1, 0, -9, 13, 30, -4, 6, 30, 2, 1, -5, -4, 1,
       0, -9, 6, -5, -9, -18, 23, -11, 2, 13, 54, 39, 15, 30,
       2, 15, -13, -4, 13, 30, -4, 6, 54, 39, 15, 30, -7, 1,
       2, -3, 15, 2, 0, -6, 30, -3, -6, -12, 2, 15, -13, -4,
       15, 2, 0, -6, 23, 3, 1, -10, -4, -6, -10, -18, 13, 30,
       -4, 6, 30, -3, -6, -12, -4, -6, -10, -18, 6, -15, -18, -27 >>

TableDigit(c) == CHOOSE k \in 1..Len(ClampedValues) : ClampedValues[k] = c

RECURSIVE TableNumber(_)
TableNumber(cs) ==
    IF cs = <<>> THEN 0
    ELSE Len(ClampedValues) * TableNumber(SubSeq(cs, 1, Len(cs) - 1))
         + TableDigit(cs[Len(cs)]) - 1

\* number of table entries for shorter lists
RECURSIVE TableBase(_)
TableBase(len) ==
    IF len <= 1 THEN 0
    ELSE Len(ClampedValues) * (TableBase(len - 1) + 1)

InTable(cs) ==
    /\ cs # <<>>
    /\ TableBase(Len(cs)) + TableNumber(cs) + 1 <= Len(ExpLogUlpsTable)
    /\ \A k \in 1..Len(cs) : \E j \in 1..Len(ClampedValues) :
          ClampedValues[j] = cs[k]

\* the rounding of lists outside the table is not evaluated
ExpLogUlps(cs) ==
    IF InTable(cs)
    THEN ExpLogUlpsTable[TableBase(Len(cs)) + TableNumber(cs) + 1]
    ELSE 0

\* Mutant: the probabilities are multiplied as they are
RECURSIVE unclamped_product(_)
unclamped_product(ps) ==
    IF ps = <<>> THEN One ELSE Mul(Head(ps), unclamped_product(Tail(ps)))

\* calculate_streak_probability: exp of the sum of the logs of the clamped
\* probabilities.  Each log is at least log(1e-15) > -35, so the sum stays
\* above -1e9 for every list shorter than 10^9 / 35 and the exp branch is
\* taken.
calculate_streak_probability(win_probabilities) ==
    IF win_probabilities = <<>> THEN One
    ELSE IF 35 * Len(win_probabilities) < Pow10(9)
         THEN [log_prob_product(win_probabilities) EXCEPT !.u =
                 ExpLogUlps([k \in 1..Len(win_probabilities) |->
                                Clamp(win_probabilities[k])])]
         ELSE Zero

----------------------------------------------------------------------------
(* chess_api.py *)

\* f"{rules}_{time_class}"
stats_key(rules, time_class) == rules \o "_" \o time_class

\* Parsed JSON: a dict is a function on its keys; any other value is a
\* record with a "type" field (no dict of the model has a key "type")
JNull == [type |-> "null"]
JInt(v) == [type |-> "int", v |-> v]
JFloat(n, d) == [type |-> "float", n |-> n, d |-> d]
JStr(x) == [type |-> "str", s |-> x]
JBool(b) == [type |-> "bool", v |-> IF b THEN 1 ELSE 0]

IsDict(x) == "type" \notin DOMAIN x

\* isinstance(x, (int, float)); bool is a subclass of int
IsNumber(x) == ~IsDict(x) /\ x.type \in {"int", "float", "bool"}

\* int(x) of a number: a float is truncated (the floats of the model are
\* non-negative)
PyInt(x) == IF x.type = "float" THEN x.n \div x.d ELSE x.v

Returns(v) == [tag |-> "ok", value |-> v]
RaisesAttributeError == [tag |-> "raise", exc |-> "AttributeError"]

\* extract_rating_deviation: int(stats[key]["last"]["rd"]) when that is a
\* number, None when a key is absent or the value is not a number;
\* x.get raises AttributeError when x is not a dict
extract_rating_deviation(stats, rules, time_class) ==
    IF ~IsDict(stats) THEN RaisesAttributeError
    ELSE LET mode_stats ==
                 Get(stats, stats_key(rules, time_class), EmptyDict)
         IN  IF ~IsDict(mode_stats) THEN RaisesAttributeError
             ELSE LET last_stats == Get(mode_stats, "last", EmptyDict)
                  IN  IF ~IsDict(last_stats) THEN RaisesAttributeError
                      ELSE LET rd_value == Get(last_stats, "rd", JNull)
                           IN  Returns(IF IsNumber(rd_value)
                                       THEN PyInt(rd_value) ELSE NoneInt)

\* Answers of fetch_player_stats: {} (no data, or any failure, which the
\* function turns into {}) or a blob with a blitz rating deviation
StatsRd50 == [chess_blitz |-> [last |-> [rd |-> JInt(50)]]]
StatsRd0 == [chess_blitz |-> [last |-> [rd |-> JInt(0)]]]
StatsBlobs == {EmptyDict, StatsRd50, StatsRd0}

----------------------------------------------------------------------------
(* Game records (dicts of the Chess.com API) *)

Side(u, r, res) == [username |-> u, rating |-> r, result |-> res]

GameDict(t, rules, tc, w, b) ==
    [end_time |-> t, rules |-> rules, time_class |-> tc, url |-> "url",
     white |-> w, black |-> b]

\* The shapes of game the lists are built from; the game at position k of a
\* list ends at time TimeStep * k.
TimeStep == 1000

GameOfKind(kind, t) ==
    CASE kind = "W"  -> GameDict(t, "chess", "blitz",
                            Side("Me", 1500, "win"),
                            Side("opp", 1500, "checkmated"))
      [] kind = "Wb" -> GameDict(t, "chess", "blitz",
                            Side("Bob", 1900, "resigned"),
                            Side("me", 1500, "win"))
      [] kind = "Wn" -> GameDict(t, "chess", "blitz",
                            Side("Me", 1500, "win"),
                            Side("OPP", NoneInt, "win"))
      [] kind = "L"  -> GameDict(t, "chess", "blitz",
                            Side("Me", 1500, "checkmated"),
                            Side("opp", 1500, "win"))
      [] kind = "D"  -> GameDict(t, "chess", "blitz",
                            Side("opp", 1500, "agreed"),
                            Side("Me", 1500, NoneStr))
      [] kind = "S"  -> GameDict(NoneInt, "chess", "blitz",
                            Side("Me", 1500, "win"),
                            Side("opp", 1500, "checkmated"))
      [] kind = "U"  -> GameDict(t, "chess", "blitz",
                            Side("Me", 1500, "win"),
                            Side(NoneStr, NoneInt, NoneStr))

GameKinds == {"W", "Wb", "Wn", "L", "D", "S", "U"}

KindLists == UNION {[1..n -> GameKinds] : n \in 0..MaxGames}

GamesOf(kinds) == [k \in 1..Len(kinds) |-> GameOfKind(kinds[k], TimeStep * k)]

GameLists == {GamesOf(ks) : ks \in KindLists}

Players == {[username |-> "Me"]}

ThresholdLists == { <<>>, <<Threshold("<=50%", Half)>>, THRESHOLDS }

\* The cache as earlier analyses of the run can have left it: empty, or
\* holding the stats of players that lost to an earlier subject
InitialCaches == { EmptyDict, "me" :> StatsRd50 }

----------------------------------------------------------------------------
(* streak_analyzer.py *)

NotAnalyzable == [tag |-> "None"]
Raises(e) == [tag |-> "raise", exc |-> e]

\* analyze_game_from_perspective(username, game)
analyze_game_from_perspective(username, game) ==
    LET white_player == game.white
        black_player == game.black
    IN  IF game.end_time = NoneInt \/ Falsy(game.rules)
           \/ Falsy(game.time_class)
        THEN NotAnalyzable
        ELSE IF white_player.username = NoneStr
                \/ black_player.username = NoneStr
        THEN Raises("AttributeError")     \* None.lower()
        ELSE LET username_lower == Lower(username)
                 is_white == Lower(white_player.username) = username_lower
                 is_black == Lower(black_player.username) = username_lower
                 white_won == white_player.result = "win"
                 black_won == black_player.result = "win"
             IN  IF ~(is_white \/ is_black) THEN NotAnalyzable
                 ELSE IF is_white
                 THEN [tag |-> "ok", won |-> white_won, rules |-> game.rules,
                       time_class |-> game.time_class,
                       end_time |-> game.end_time,
                       my_rating |-> white_player.rating,
                       opponent_rating |-> black_player.rating,
                       opponent_username |-> black_player.username,
                       url |-> game.url]
                 ELSE [tag |-> "ok", won |-> black_won, rules |-> game.rules,
                       time_class |-> game.time_class,
                       end_time |-> game.end_time,
                       my_rating |-> black_player.rating,
                       opponent_rating |-> white_player.rating,
                       opponent_username |-> white_player.username,
                       url |-> game.url]

\* models.py: the fields the GameView dataclass declares, and the keywords
\* detect_win_streaks passes to its constructor
GameViewFields == {"end_time", "rules", "time_class", "url",
                   "opponent_username", "opponent_rating", "winner_rating",
                   "p_win"}

GameViewKeywords == GameViewFields \cup {"estimated_winner_rating",
                                         "estimated_loser_rating"}

\* A dataclass constructor accepts only keywords that name its fields
ConstructorAccepts(fields, keywords) == keywords \subseteq fields

\* finalize_current_streak: the detector locals after the call
finalize_current_streak(p, thr, st) ==
    IF st.current_streak_games = <<>> THEN st
    ELSE LET combined_prob ==
                 calculate_streak_probability(st.current_win_probabilities)
             threshold_label == classify_streak_probability(combined_prob, thr)
             n == Len(st.current_streak_games)
             streak ==
                 [player |-> p,
                  start_time |-> PyOr(st.streak_start_time,
                                      st.current_streak_games[1].end_time),
                  end_time |-> st.current_streak_games[n].end_time,
                  length |-> n,
                  p_combined |-> combined_prob,
                  threshold_label |-> threshold_label,
                  games |-> st.current_streak_games]
         IN  [streaks |-> IF threshold_label # NoneStr
                          THEN Append(st.streaks, streak) ELSE st.streaks,
              current_streak_games |-> <<>>,
              current_win_probabilities |-> <<>>,
              streak_start_time |-> NoneInt]

\* The detector locals as one record
Locals == [streaks |-> streaks,
           current_streak_games |-> current_streak_games,
           current_win_probabilities |-> current_win_probabilities,
           streak_start_time |-> streak_start_time]

SetLocals(st) ==
    /\ streaks' = st.streaks
    /\ current_streak_games' = st.current_streak_games
    /\ current_win_probabilities' = st.current_win_probabilities
    /\ streak_start_time' = st.streak_start_time

\* number of classify calls finalize_current_streak makes
FinalizeClassifies(st) == IF st.current_streak_games = <<>> THEN 0 ELSE 1

\* Mutant: the membership test before the fetch is missing
CacheMiss_always(cache, key) == TRUE

\* `if opponent_username_lower not in stats_cache`
CacheMiss(cache, key) == key \notin DOMAIN cache

harness_idle == /\ fcall = [fn |-> "none"] /\ fret = NoneStr

Init ==
    /\ pc = "ready"
    /\ player = [username |-> ""]
    /\ games = <<>>
    /\ thresholds = <<>>
    /\ stats_cache \in InitialCaches
    /\ cache_at_call = stats_cache
    /\ i = 0
    /\ streaks = <<>>
    /\ current_streak_games = <<>>
    /\ current_win_probabilities = <<>>
    /\ streak_start_time = NoneInt
    /\ result = <<>>
    /\ exc = NoExc
    /\ fetch_log = <<>>
    /\ detect_called = FALSE
    /\ classify_count = 0
    /\ harness_idle

\* Mutant: the early return for an empty list is missing
NoGames_never(g) == FALSE

\* `if not games`
NoGames(g) == g = <<>>

\* analyze_player_streaks up to the first loop iteration of
\* detect_win_streaks
AnalyzePlayerStreaks ==
    /\ pc = "ready"
    /\ \E p \in Players, g \in GameLists, t \in ThresholdLists :
          /\ player' = p
          /\ games' = g
          /\ thresholds' = t
          /\ cache_at_call' = stats_cache
          /\ IF NoGames(g)
             THEN /\ pc' = "returned"
                  /\ result' = <<>>
                  /\ detect_called' = FALSE
                  /\ i' = 0
             ELSE /\ pc' = "running"
                  /\ result' = result
                  /\ detect_called' = TRUE
                  /\ i' = 1
    /\ streaks' = <<>>
    /\ current_streak_games' = <<>>
    /\ current_win_probabilities' = <<>>
    /\ streak_start_time' = NoneInt
    /\ UNCHANGED <<stats_cache, exc, fetch_log, classify_count, fcall, fret>>

InLoop == pc = "running" /\ i <= Len(games)

Analysis == analyze_game_from_perspective(player.username, games[i])

\* game_analysis is None: continue
GameSkipped ==
    /\ InLoop
    /\ Analysis.tag = "None"
    /\ i' = i + 1
    /\ UNCHANGED <<pc, player, games, thresholds, stats_cache, cache_at_call,
                   detector, result, exc, fetch_log, detect_called,
                   classify_count, cache_at_call, fcall, fret>>

\* analyze_game_from_perspective raises
GameRaises ==
    /\ InLoop
    /\ Analysis.tag = "raise"
    /\ pc' = "raised"
    /\ exc' = Analysis.exc
    /\ UNCHANGED <<player, games, thresholds, stats_cache, cache_at_call, i,
                   detector, result, fetch_log, detect_called,
                   classify_count, cache_at_call, fcall, fret>>

\* not won: finalize_current_streak(); continue
GameNotWon ==
    /\ InLoop
    /\ Analysis.tag = "ok" /\ ~Analysis.won
    /\ SetLocals(finalize_current_streak(player, thresholds, Locals))
    /\ classify_count' = classify_count + FinalizeClassifies(Locals)
    /\ i' = i + 1
    /\ UNCHANGED <<pc, player, games, thresholds, stats_cache, cache_at_call,
                   result, exc, fetch_log, detect_called, fcall, fret>>

\* won: the rest of the loop body
GameWon ==
    /\ InLoop
    /\ Analysis.tag = "ok" /\ Analysis.won
    /\ LET a == Analysis
           opponent_username_lower == Lower(a.opponent_username)
           miss == CacheMiss(stats_cache, opponent_username_lower)
       IN  \E fetched \in StatsBlobs :
           LET cache1 == IF miss
                         THEN SetItem(stats_cache, opponent_username_lower,
                                      fetched)
                         ELSE stats_cache
               opponent_stats == Get(cache1, opponent_username_lower, EmptyDict)
               opponent_rd == extract_rating_deviation(opponent_stats, a.rules,
                                                       a.time_class)
               my_stats == Get(cache1, Lower(player.username), EmptyDict)
               my_rd == extract_rating_deviation(my_stats, a.rules,
                                                 a.time_class)
               rd_raises == opponent_rd.tag = "raise" \/ my_rd.tag = "raise"
           IN  /\ stats_cache' = cache1
               /\ fetch_log' = IF miss
                               THEN Append(fetch_log, opponent_username_lower)
                               ELSE fetch_log
               /\ \E value \in
                      IF rd_raises THEN {PyRaise("AttributeError")}
                      ELSE expected_win_prob_glicko(a.my_rating,
                               a.opponent_rating, my_rd.value,
                               opponent_rd.value) :
                  IF value.shape = "raise"
                  THEN /\ pc' = "raised"
                       /\ exc' = value.exc
                       /\ UNCHANGED <<i, detector>>
                  ELSE IF ~Unpacks3(value)
                  THEN \* cannot unpack non-iterable float / NoneType
                       /\ pc' = "raised"
                       /\ exc' = "TypeError"
                       /\ UNCHANGED <<i, detector>>
                  ELSE LET unavailable == value.formula = "none"
                           win_probability ==
                               IF unavailable THEN Half ELSE value.p
                           estimated_winner_rating ==
                               IF unavailable THEN a.my_rating
                               ELSE value.est_winner
                           estimated_loser_rating ==
                               IF unavailable THEN a.opponent_rating
                               ELSE value.est_loser
                           game_view ==
                               [end_time |-> a.end_time, rules |-> a.rules,
                                time_class |-> a.time_class, url |-> a.url,
                                opponent_username |-> a.opponent_username,
                                opponent_rating |-> a.opponent_rating,
                                winner_rating |-> a.my_rating,
                                p_win |-> win_probability,
                                estimated_winner_rating |->
                                    estimated_winner_rating,
                                estimated_loser_rating |->
                                    estimated_loser_rating]
                       IN  IF ~ConstructorAccepts(GameViewFields,
                                                  GameViewKeywords)
                           THEN \* unexpected keyword argument
                                /\ pc' = "raised"
                                /\ exc' = "TypeError"
                                /\ i' = i
                                /\ streak_start_time' =
                                     IF current_streak_games = <<>>
                                     THEN a.end_time ELSE streak_start_time
                                /\ UNCHANGED <<streaks, current_streak_games,
                                               current_win_probabilities>>
                           ELSE /\ pc' = pc
                                /\ exc' = exc
                                /\ i' = i + 1
                                /\ streak_start_time' =
                                     IF current_streak_games = <<>>
                                     THEN a.end_time ELSE streak_start_time
                                /\ current_streak_games' =
                                     Append(current_streak_games, game_view)
                                /\ current_win_probabilities' =
                                     Append(current_win_probabilities,
                                            win_probability)
                                /\ streaks' = streaks
    /\ UNCHANGED <<player, games, thresholds, cache_at_call, result,
                   detect_called, classify_count, fcall, fret>>

\* after the loop: finalize_current_streak(); return streaks
EndOfInput ==
    /\ pc = "running"
    /\ i = Len(games) + 1
    /\ SetLocals(finalize_current_streak(player, thresholds, Locals))
    /\ classify_count' = classify_count + FinalizeClassifies(Locals)
    /\ result' = finalize_current_streak(player, thresholds, Locals).streaks
    /\ pc' = "returned"
    /\ UNCHANGED <<player, games, thresholds, stats_cache, cache_at_call, i,
                   exc, fetch_log, detect_called, fcall, fret>>

Next ==
    \/ AnalyzePlayerStreaks
    \/ GameSkipped
    \/ GameRaises
    \/ GameNotWon
    \/ GameWon
    \/ EndOfInput

Spec == Init /\ [][Next]_vars

----------------------------------------------------------------------------------------------------------------------------------------
(* main.py: the loop over the players of one run.  The cache starts empty, *)
(* every call gets the same cache and THRESHOLDS, and an exception of a    *)
(* call is caught and the loop goes on with the next player.               *)

MaxRunGames == 1

RunKinds == {"W", "Wb", "L", "U"}

RunGameLists ==
    {GamesOf(ks) : ks \in UNION {[1..n -> RunKinds] : n \in 0..MaxRunGames}}

\* subjects of the run: "opp" has the games of "Me" from the other side
RunPlayers == {[username |-> "Me"], [username |-> "opp"]}

\* stats_cache: Dict[str, dict] = {}
InitRun == Init /\ stats_cache = EmptyDict

\* one iteration of `for username in player_usernames` up to the first
\* loop iteration of detect_win_streaks, entered at the start of the run
\* or after the call of the previous player returned or raised
StartPlayer(p, g) ==
    /\ player' = p
    /\ games' = g
    /\ IF NoGames(g)
       THEN /\ pc' = "returned"
            /\ detect_called' = FALSE
            /\ i' = 0
       ELSE /\ pc' = "running"
            /\ detect_called' = TRUE
            /\ i' = 1
    /\ thresholds' = THRESHOLDS
    /\ cache_at_call' = stats_cache
    /\ result' = <<>>
    /\ exc' = NoExc
    /\ classify_count' = 0
    /\ streaks' = <<>>
    /\ current_streak_games' = <<>>
    /\ current_win_probabilities' = <<>>
    /\ streak_start_time' = NoneInt
    /\ UNCHANGED <<stats_cache, fetch_log>>

ProcessPlayer ==
    /\ pc \in {"ready", "returned", "raised"}
    /\ \E p \in RunPlayers, g \in RunGameLists : StartPlayer(p, g)
    /\ UNCHANGED <<fcall, fret>>

NextRun ==
    \/ ProcessPlayer
    \/ GameSkipped
    \/ GameRaises
    \/ GameNotWon
    \/ GameWon
    \/ EndOfInput

SpecRun == InitRun /\ [][NextRun]_vars

----------------------------------------------------------------------------
(* Harness: classify_streak_probability applied to enumerated inputs *)

detector_idle ==
    /\ pc = "ready"
    /\ player = [username |-> ""]
    /\ games = <<>>
    /\ thresholds = <<>>
    /\ stats_cache = EmptyDict
    /\ cache_at_call = EmptyDict
    /\ i = 0
    /\ streaks = <<>>
    /\ current_streak_games = <<>>
    /\ current_win_probabilities = <<>>
    /\ streak_start_time = NoneInt
    /\ result = <<>>
    /\ exc = NoExc
    /\ fetch_log = <<>>
    /\ detect_called = FALSE
    /\ classify_count = 0

detector_vars == <<pc, player, games, thresholds, stats_cache, cache_at_call,
                   i, streaks, current_streak_games,
                   current_win_probabilities, streak_start_time, result, exc,
                   fetch_log, detect_called, classify_count>>

Pending == "pending"

ClassifyProbabilities ==
    {Zero, Rat(1, 200), Rat(1, 100), Rat(1, 50), Rat(1, 20), Rat(1, 4), Half,
     Rat(3, 4), One}

ClassifyPairs ==
    {Threshold("<=5%", Rat(1, 20)), Threshold("<=1%", Rat(1, 100)),
     Threshold("<=50%", Half)}

ClassifyThresholds ==
    UNION {[1..n -> ClassifyPairs] : n \in 0..MaxThresholds}

InitClassify ==
    /\ detector_idle
    /\ fcall \in {[fn |-> "classify_streak_probability", probability |-> q,
                   thresholds |-> t] :
                     q \in ClassifyProbabilities, t \in ClassifyThresholds}
    /\ fret = Pending

ClassifyCall ==
    /\ fcall.fn = "classify_streak_probability"
    /\ fret = Pending
    /\ fret' = classify_streak_probability(fcall.probability, fcall.thresholds)
    /\ UNCHANGED <<fcall, detector_vars>>

NextClassify == ClassifyCall

SpecClassify == InitClassify /\ [][NextClassify]_vars

----------------------------------------------------------------------------
(* Harness: expected_win_prob_glicko applied to enumerated inputs *)

PendingValue == [shape |-> "pending"]

DispatchRatings == {NoneInt, 1500, 1900}
DispatchRds == {NoneInt, 0, 50}

InitDispatch ==
    /\ detector_idle
    /\ fcall \in {[fn |-> "expected_win_prob_glicko", r_winner |-> rw,
                   r_loser |-> rl, rd_winner |-> dw, rd_loser |-> dl,
                   estimate_pregame |-> ep] :
                     rw \in DispatchRatings, rl \in DispatchRatings,
                     dw \in DispatchRds, dl \in DispatchRds,
                     ep \in BOOLEAN}
    /\ fret = PendingValue

DispatchCall ==
    /\ fcall.fn = "expected_win_prob_glicko"
    /\ fret = PendingValue
    /\ fret' \in expected_win_prob_glicko_kw(fcall.r_winner, fcall.r_loser,
                     fcall.rd_winner, fcall.rd_loser, fcall.estimate_pregame)
    /\ UNCHANGED <<fcall, detector_vars>>

NextDispatch == DispatchCall

SpecDispatch == InitDispatch /\ [][NextDispatch]_vars

----------------------------------------------------------------------------
(* Harness: analyze_game_from_perspective applied to enumerated games *)

PerspectiveGames ==
    {GameDict(t, rules, tc, Side(wu, 1500, wres), Side(bu, 1900, "resigned")) :
        t \in {NoneInt, 0, TimeStep},
        rules \in {NoneStr, "chess"},
        tc \in {NoneStr, "blitz"},
        wu \in {"Me", "opp", NoneStr},
        bu \in {"me", "Bob", NoneStr},
        wres \in {"win", "timeout"}}

InitPerspective ==
    /\ detector_idle
    /\ fcall \in {[fn |-> "analyze_game_from_perspective",
                   username |-> "Me", game |-> g] : g \in PerspectiveGames}
    /\ fret = PendingValue

PerspectiveCall ==
    /\ fcall.fn = "analyze_game_from_perspective"
    /\ fret = PendingValue
    /\ fret' = analyze_game_from_perspective(fcall.username, fcall.game)
    /\ UNCHANGED <<fcall, detector_vars>>

NextPerspective == PerspectiveCall

SpecPerspective == InitPerspective /\ [][NextPerspective]_vars

----------------------------------------------------------------------------
(* Harness: extract_rating_deviation on the stats of both players, then    *)
(* expected_win_prob_glicko on the deviations it returned                  *)

\* the "rd" entries of the model; "absent" stands for a dict without "rd"
RdEntries == {JInt(50), JInt(0), JFloat(1, 2), JStr("50"), JNull,
              JBool(TRUE)}

RdStats ==
    {EmptyDict,
     [chess_blitz |-> EmptyDict],
     [chess_blitz |-> [last |-> EmptyDict]],
     [chess_blitz |-> JNull],
     [chess_blitz |-> [last |-> JNull]]}
    \cup {[chess_blitz |-> [last |-> [rd |-> v]]] : v \in RdEntries}

InitRd ==
    /\ detector_idle
    /\ fcall \in {[fn |-> "extract_rating_deviation", winner_stats |-> sw,
                   loser_stats |-> sl, rules |-> "chess",
                   time_class |-> "blitz"] : sw \in RdStats, sl \in RdStats}
    /\ fret = PendingValue

\* my_rd / opponent_rd of detect_win_streaks
RdCall ==
    /\ fcall.fn = "extract_rating_deviation"
    /\ fret = PendingValue
    /\ fret' = [shape |-> "rd",
                rd_winner |-> extract_rating_deviation(fcall.winner_stats,
                                  fcall.rules, fcall.time_class),
                rd_loser |-> extract_rating_deviation(fcall.loser_stats,
                                  fcall.rules, fcall.time_class)]
    /\ UNCHANGED <<fcall, detector_vars>>

\* the dispatcher on the two deviations, for two 1500-rated players
RdDispatch ==
    /\ fcall.fn = "extract_rating_deviation"
    /\ fret # PendingValue /\ fret.shape = "rd"
    /\ fret.rd_winner.tag = "ok" /\ fret.rd_loser.tag = "ok"
    /\ \E value \in expected_win_prob_glicko(1500, 1500,
                         fret.rd_winner.value, fret.rd_loser.value) :
          fret' = [shape |-> "dispatched",
                   rd_winner |-> fret.rd_winner, rd_loser |-> fret.rd_loser,
                   value |-> value]
    /\ UNCHANGED <<fcall, detector_vars>>

NextRd == RdCall \/ RdDispatch

SpecRd == InitRd /\ [][NextRd]_vars

----------------------------------------------------------------------------
(* Harness: _estimate_pre_diff_from_post, one step per loop iteration.     *)
(* The floats are not evaluated: whether an iteration moves the guess by   *)
(* less than tol is left open.                                             *)

max_iter == 50

EstimateRds == {0, 50, 350}
EstimateDiffs == {0 - ELO_K_FACTOR, 0, ELO_K_FACTOR}

EstimateState(shape, iter, converged, e) ==
    [shape |-> shape, iter |-> iter, converged |-> converged, exc |-> e]

\* d_pre = d_post, before the first iteration
InitEstimate ==
    /\ detector_idle
    /\ fcall \in {[fn |-> "_estimate_pre_diff_from_post", rd_winner |-> dw,
                   rd_loser |-> dl, rating_diff |-> d] :
                     dw \in EstimateRds, dl \in EstimateRds,
                     d \in EstimateDiffs}
    /\ fret = EstimateState("loop", 0, FALSE, NoExc)

InEstimateLoop ==
    /\ fcall.fn = "_estimate_pre_diff_from_post"
    /\ fret.shape = "loop"
    /\ fret.iter < max_iter

\* 1.0 / (phi_w_est ** 2) or 1.0 / (phi_l_est ** 2) with phi = 0.0
EstimateDivides ==
    /\ InEstimateLoop
    /\ EstimateRaises(fcall.rd_winner, fcall.rd_loser)
    /\ fret' = EstimateState("raise", fret.iter, FALSE, "ZeroDivisionError")
    /\ UNCHANGED <<fcall, detector_vars>>

\* abs(d_pre_new - d_pre) >= tol: damped update, next iteration
EstimateIterate ==
    /\ InEstimateLoop
    /\ ~EstimateRaises(fcall.rd_winner, fcall.rd_loser)
    /\ fret' = EstimateState("loop", fret.iter + 1, FALSE, NoExc)
    /\ UNCHANGED <<fcall, detector_vars>>

\* abs(d_pre_new - d_pre) < tol: break
EstimateBreak ==
    /\ InEstimateLoop
    /\ ~EstimateRaises(fcall.rd_winner, fcall.rd_loser)
    /\ fret' = EstimateState("after_loop", fret.iter + 1, TRUE, NoExc)
    /\ UNCHANGED <<fcall, detector_vars>>

\* range(max_iter) is used up
EstimateExhausted ==
    /\ fcall.fn = "_estimate_pre_diff_from_post"
    /\ fret.shape = "loop"
    /\ fret.iter = max_iter
    /\ fret' = EstimateState("after_loop", fret.iter, FALSE, NoExc)
    /\ UNCHANGED <<fcall, detector_vars>>

\* the deltas at the last d_pre, and the return
EstimateReturn ==
    /\ fcall.fn = "_estimate_pre_diff_from_post"
    /\ fret.shape = "after_loop"
    /\ fret' = EstimateState("returned", fret.iter, fret.converged, NoExc)
    /\ UNCHANGED <<fcall, detector_vars>>

NextEstimate ==
    \/ EstimateDivides
    \/ EstimateIterate
    \/ EstimateBreak
    \/ EstimateExhausted
    \/ EstimateReturn

SpecEstimate == InitEstimate /\ [][NextEstimate]_vars

----------------------------------------------------------------------------
(* Harness: calculate_streak_probability on a list and on the list with    *)
(* one more probability appended                                           *)

\* 0.0, 0.1, 0.5, 0.9999999999999999, 1.0 and 2.0
StreakProbabilities == {Zero, Rat(1, 10), Half, AlmostOne, One, Rat(2, 1)}

StreakProbLists ==
    UNION {[1..n -> StreakProbabilities] : n \in 0..MaxProbs}

InitStreakProb ==
    /\ detector_idle
    /\ fcall \in {[fn |-> "calculate_streak_probability",
                   win_probabilities |-> ps, appended |-> q] :
                     ps \in StreakProbLists, q \in StreakProbabilities}
    /\ fret = PendingValue

StreakProbCall ==
    /\ fcall.fn = "calculate_streak_probability"
    /\ fret = PendingValue
    /\ fret' = [shape |-> "first",
                base |-> calculate_streak_probability(fcall.win_probabilities)]
    /\ UNCHANGED <<fcall, detector_vars>>

StreakProbAppendedCall ==
    /\ fcall.fn = "calculate_streak_probability"
    /\ fret # PendingValue /\ fret.shape = "first"
    /\ fret' = [shape |-> "both",
                base |-> fret.base,
                longer |-> calculate_streak_probability(
                    Append(fcall.win_probabilities, fcall.appended))]
    /\ UNCHANGED <<fcall, detector_vars>>

NextStreakProb == StreakProbCall \/ StreakProbAppendedCall

SpecStreakProb == InitStreakProb /\ [][NextStreakProb]_vars

----------------------------------------------------------------------------
(* http_client.py: ChessComHttpClient.get_json, one step per iteration of  *)
(* its while loop.  The server's answer to each request is any of: a       *)
(* request exception, 200 with or without valid JSON, 304, 429, 404/410,   *)
(* another status.                                                         *)

Min(a, b) == IF a <= b THEN a ELSE b

\* the time.sleep that followed the last request: none, sleep_s, or a
\* retry wait
NoSleep == [kind |-> "none", seconds |-> 0]
SleepS == [kind |-> "sleep_s", seconds |-> 0]
Wait(seconds) == [kind |-> "wait", seconds |-> seconds]

\* what the call has done so far: retries issued after failed requests,
\* 429 responses received, failed requests in a row up to the last one
History(retried, limited, failed) ==
    [retried |-> retried, limited |-> limited, failed |-> failed]

NoHistory == History(0, 0, 0)

HttpState(shape, attempt, sleep, path, value, history) ==
    [shape |-> shape, attempt |-> attempt, sleep |-> sleep, path |-> path,
     value |-> value, history |-> history]

\* attempt = 0
InitHttp ==
    /\ detector_idle
    /\ fcall \in {[fn |-> "get_json", retries |-> r] :
                     r \in 0..DEFAULT_RETRIES}
    /\ fret = HttpState("loop", 0, NoSleep, "start", "", NoHistory)

MayRetry_once_more(attempt, retries) == attempt <= retries + 1

\* `if attempt <= self.retries`
MayRetry(attempt, retries) == attempt <= retries

\* a request exception (final_sleep = NoSleep) or a status other than 200,
\* 304, 429, 404, 410 (final_sleep = SleepS) on request number `attempt`
AfterFailure(s, attempt, retries, final_sleep, path) ==
    IF MayRetry(attempt, retries)
    THEN HttpState("loop", attempt, Wait(Min(5 * attempt, 20)), path, "",
                   History(s.history.retried + 1, s.history.limited,
                           s.history.failed + 1))
    ELSE HttpState("returned", attempt, final_sleep, path, "None",
                   History(s.history.retried, s.history.limited,
                           s.history.failed + 1))

\* status 429 on request number `attempt`
After429(s, attempt) ==
    HttpState("loop", attempt, Wait(Min(10 * attempt, 60)), "429", "",
              History(s.history.retried, s.history.limited + 1, 0))

\* status 200, 304, 404 or 410 on request number `attempt`
AfterAnswer(s, attempt, path, value) ==
    HttpState("returned", attempt, SleepS, path, value,
              History(s.history.retried, s.history.limited, 0))

\* `while True: attempt += 1`, the request of this iteration not yet
\* answered; attempts beyond MaxAttempts are not explored
InHttpLoop ==
    /\ fcall.fn = "get_json"
    /\ fret.shape = "loop"
    /\ fret.attempt < MaxAttempts

HttpStep(next) ==
    /\ fret' = next
    /\ UNCHANGED <<fcall, detector_vars>>

\* sess.get raises requests.RequestException
GetRaises ==
    /\ InHttpLoop
    /\ HttpStep(AfterFailure(fret, fret.attempt + 1, fcall.retries, NoSleep,
                             "exception"))

\* status 200: the parsed JSON, or None when it does not parse
Get200 ==
    /\ InHttpLoop
    /\ \E data \in {"data", "None"} :
          HttpStep(AfterAnswer(fret, fret.attempt + 1, "200", data))

\* status 304
Get304 ==
    /\ InHttpLoop
    /\ HttpStep(AfterAnswer(fret, fret.attempt + 1, "304", "None"))

\* status 429
Get429 ==
    /\ InHttpLoop
    /\ HttpStep(After429(fret, fret.attempt + 1))

\* status 404 or 410
GetNotFound ==
    /\ InHttpLoop
    /\ HttpStep(AfterAnswer(fret, fret.attempt + 1, "404/410", "None"))

\* any other status
GetOtherStatus ==
    /\ InHttpLoop
    /\ HttpStep(AfterFailure(fret, fret.attempt + 1, fcall.retries, SleepS,
                             "status"))

NextHttp ==
    \/ GetRaises
    \/ Get200
    \/ Get304
    \/ Get429
    \/ GetNotFound
    \/ GetOtherStatus

SpecHttp == InitHttp /\ [][NextHttp]_vars

\* get_json without a bound on the number of requests.  attempt is an
\* unbounded Python int; the loop reads it only in `attempt <= retries`,
\* min(5 * attempt, 20) and min(10 * attempt, 60), which have their final
\* values from attempt MaxAttempts + 1 on, so the counters are kept up to
\* MaxAttempts, a counter at MaxAttempts standing for every greater value.
Saturated(s) ==
    [s EXCEPT !.attempt = Min(@, MaxAttempts),
              !.history = History(Min(@.retried, MaxAttempts),
                                  Min(@.limited, MaxAttempts),
                                  Min(@.failed, MaxAttempts))]

\* sess.get(url, timeout=self.timeout) sent, not yet answered
LiveSend ==
    /\ fcall.fn = "get_json"
    /\ fret.shape = "loop"
    /\ fret' = [fret EXCEPT !.shape = "sent"]
    /\ UNCHANGED <<fcall, detector_vars>>

HttpSent ==
    /\ fcall.fn = "get_json"
    /\ fret.shape = "sent"

LiveRaises ==
    /\ HttpSent
    /\ HttpStep(Saturated(AfterFailure(fret, fret.attempt + 1, fcall.retries,
                                       NoSleep, "exception")))

Live200 ==
    /\ HttpSent
    /\ \E data \in {"data", "None"} :
          HttpStep(Saturated(AfterAnswer(fret, fret.attempt + 1, "200",
                                         data)))

Live304 ==
    /\ HttpSent
    /\ HttpStep(Saturated(AfterAnswer(fret, fret.attempt + 1, "304",
                                      "None")))

Live429 ==
    /\ HttpSent
    /\ HttpStep(Saturated(After429(fret, fret.attempt + 1)))

LiveNotFound ==
    /\ HttpSent
    /\ HttpStep(Saturated(AfterAnswer(fret, fret.attempt + 1, "404/410",
                                      "None")))

LiveOtherStatus ==
    /\ HttpSent
    /\ HttpStep(Saturated(AfterFailure(fret, fret.attempt + 1, fcall.retries,
                                       SleepS, "status")))

NextHttpLive ==
    \/ LiveSend
    \/ LiveRaises
    \/ Live200
    \/ Live304
    \/ Live429
    \/ LiveNotFound
    \/ LiveOtherStatus

\* the loop is the only thread of the call and every request is answered
\* or times out, so the call always takes its next step
SpecHttpLive == InitHttp /\ [][NextHttpLive]_vars /\ WF_vars(NextHttpLive)

----------------------------------------------------------------------------
(* chess_api.py: fetch_titled_players, one step per iteration of its loop  *)
(* over the requested titles.                                              *)

TITLE_ABBREVS ==
    <<"GM", "WGM", "IM", "WIM", "FM", "WFM", "NM", "WNM", "CM", "WCM">>

\* {t: i for i, t in enumerate(TITLE_ABBREVS, start=1)}
TITLE_RANK ==
    [t \in {TITLE_ABBREVS[k] : k \in DOMAIN TITLE_ABBREVS} |->
        CHOOSE k \in DOMAIN TITLE_ABBREVS : TITLE_ABBREVS[k] = t]

\* TITLE_RANK.get(title, 999)
TitleRank(title) == Get(TITLE_RANK, title, 999)

\* what chessdotcom.get_titled_players(title) gives: an exception, a falsy
\* response, JSON without "players", or JSON with a list of players
Listing(kind, players) == [kind |-> kind, players |-> players]

\* the titles requested and the entries of a players list; a JSON null in
\* the list is NoneStr
RequestedTitles == {"GM", "IM"}
ListedNames == {"Bob", "bob", "opp", NoneStr}

SeqsUpTo(S, n) == UNION {[1..k -> S] : k \in 0..n}

Listings ==
    {Listing(kind, <<>>) : kind \in {"raise", "no_response", "no_players"}}
    \cup {Listing("players", names) : names \in SeqsUpTo(ListedNames, MaxListing)}

\* lines 85-91, for a username that is a string
KeepHighestRanked(players, title, username) ==
    LET username_lower == Lower(username)
        existing_title == Get(players, username_lower, NoneStr)
    IN  IF existing_title = NoneStr
           \/ TitleRank(title) < TitleRank(existing_title)
        THEN SetItem(players, username_lower, title)
        ELSE players

\* `for username in data["players"]` inside the try: None.lower() raises
\* AttributeError, the except clause moves on to the next title and the
\* rest of the list is not read
RECURSIVE ProcessListing(_, _, _)
ProcessListing(players, title, names) ==
    IF names = <<>> THEN players
    ELSE IF Head(names) = NoneStr THEN players
    ELSE ProcessListing(KeepHighestRanked(players, title, Head(names)),
                        title, Tail(names))

TitledState(shape, pos, players) ==
    [shape |-> shape, pos |-> pos, players |-> players]

\* players = {}
InitTitled ==
    /\ detector_idle
    /\ fcall \in {[fn |-> "fetch_titled_players", titles |-> titles,
                   listing |-> listing] :
                     titles \in SeqsUpTo(RequestedTitles, MaxTitles),
                     listing \in [RequestedTitles -> Listings]}
    /\ fret = TitledState("loop", 0, EmptyDict)

InTitledLoop ==
    /\ fcall.fn = "fetch_titled_players"
    /\ fret.shape = "loop"
    /\ fret.pos < Len(fcall.titles)

\* the three `continue`s: an exception of get_titled_players, no response,
\* no data or no "players" in it
TitleSkipped ==
    /\ InTitledLoop
    /\ fcall.listing[fcall.titles[fret.pos + 1]].kind # "players"
    /\ fret' = TitledState("loop", fret.pos + 1, fret.players)
    /\ UNCHANGED <<fcall, detector_vars>>

TitleListed ==
    /\ InTitledLoop
    /\ LET title == fcall.titles[fret.pos + 1]
           data == fcall.listing[title]
       IN  /\ data.kind = "players"
           /\ fret' = TitledState("loop", fret.pos + 1,
                          ProcessListing(fret.players, title, data.players))
    /\ UNCHANGED <<fcall, detector_vars>>

\* return players
TitledReturn ==
    /\ fcall.fn = "fetch_titled_players"
    /\ fret.shape = "loop"
    /\ fret.pos = Len(fcall.titles)
    /\ fret' = TitledState("returned", fret.pos, fret.players)
    /\ UNCHANGED <<fcall, detector_vars>>

NextTitled == TitleSkipped \/ TitleListed \/ TitledReturn

SpecTitled == InitTitled /\ [][NextTitled]_vars

----------------------------------------------------------------------------
(* chess_api.py: month_urls_for_window.  Times are whole days since        *)
(* 2024-01-01T00:00Z (timestamp = 86400 * day), a monthly archive URL      *)
(* ".../games/2024/01" is the record of its year and month.                *)

DaysInMonth == <<31, 29, 31, 30, 31, 30, 31, 31, 30, 31, 30, 31>>

RECURSIVE MonthOfDay(_, _)
MonthOfDay(day, month) ==
    IF day < DaysInMonth[month] THEN month
    ELSE MonthOfDay(day - DaysInMonth[month], month + 1)

\* datetime.fromtimestamp(t, tz=timezone.utc)
fromtimestamp(day) == [year |-> 2024, month |-> MonthOfDay(day, 1)]

year_month(dt) == <<dt.year, dt.month>>

ArchiveUrl(year, month) == [year |-> year, month |-> month]

\* url.endswith(f"/{year}/{month:02d}")
EndsWith(url, target) == url.year = target[1] /\ url.month = target[2]

\* lines 262-267
RECURSIVE RemoveDuplicates(_, _)
RemoveDuplicates(urls, seen) ==
    IF urls = <<>> THEN <<>>
    ELSE IF Head(urls) \in seen THEN RemoveDuplicates(Tail(urls), seen)
    ELSE <<Head(urls)>>
         \o RemoveDuplicates(Tail(urls), seen \cup {Head(urls)})

month_urls_for_window(archives, start_time, end_time) ==
    LET start_dt == fromtimestamp(start_time)
        end_dt == fromtimestamp(end_time)
        mid_dt == fromtimestamp(start_time + 15)
        target_months ==
            {year_month(start_dt), year_month(end_dt), year_month(mid_dt)}
        Relevant(url) == \E target \in target_months : EndsWith(url, target)
        relevant_urls == SelectSeq(archives, Relevant)
    IN  RemoveDuplicates(relevant_urls, {})

ArchiveUrls ==
    {ArchiveUrl(2023, 2)} \cup {ArchiveUrl(2024, month) : month \in 1..3}

InitMonths ==
    /\ detector_idle
    /\ \E archives \in SeqsUpTo(ArchiveUrls, MaxArchives),
          start_time \in 0..MaxDay :
          \E end_time \in start_time..MaxDay :
             fcall = [fn |-> "month_urls_for_window", archives |-> archives,
                      start_time |-> start_time, end_time |-> end_time]
    /\ fret = PendingValue

MonthsCall ==
    /\ fcall.fn = "month_urls_for_window"
    /\ fret = PendingValue
    /\ fret' = [shape |-> "returned",
                value |-> month_urls_for_window(fcall.archives,
                              fcall.start_time, fcall.end_time)]
    /\ UNCHANGED <<fcall, detector_vars>>

NextMonths == MonthsCall

SpecMonths == InitMonths /\ [][NextMonths]_vars

----------------------------------------------------------------------------
(* chess_api.py: fetch_games_in_window.  fetch_player_archives gives a     *)
(* list of archive URLs ([] when it fails), fetch_month_games(url) the     *)
(* games of that archive ([] when it fails); a game is its archive, its    *)
(* position in the archive and its end_time (NoneInt: not an int).         *)

\* isinstance(game_end_time, int)
IsInstanceInt(x) == x # NoneInt

fetch_month_games(month_games, archive_url) ==
    [k \in DOMAIN month_games[archive_url] |->
        [archive |-> archive_url, k |-> k,
         end_time |-> month_games[archive_url][k]]]

\* all_games.extend(games) for each relevant archive
RECURSIVE ExtendAll(_, _)
ExtendAll(month_games, urls) ==
    IF urls = <<>> THEN <<>>
    ELSE fetch_month_games(month_games, Head(urls))
         \o ExtendAll(month_games, Tail(urls))

unsorted(game_list) == game_list

\* list.sort(key=lambda g: g.get("end_time", 0)): stable, a game goes
\* after the games whose key is not greater
RECURSIVE InsertByEndTime(_, _)
InsertByEndTime(sorted, game) ==
    IF sorted = <<>> THEN <<game>>
    ELSE IF Head(sorted).end_time <= game.end_time
         THEN <<Head(sorted)>> \o InsertByEndTime(Tail(sorted), game)
         ELSE <<game>> \o sorted

RECURSIVE SortByEndTimeFrom(_, _)
SortByEndTimeFrom(sorted, game_list) ==
    IF game_list = <<>> THEN sorted
    ELSE SortByEndTimeFrom(InsertByEndTime(sorted, Head(game_list)),
                           Tail(game_list))

sort_by_end_time(game_list) == SortByEndTimeFrom(<<>>, game_list)

\* lines 304-305
InTimeWindow(game, start_time, end_time) ==
    /\ IsInstanceInt(game.end_time)
    /\ start_time <= game.end_time
    /\ game.end_time <= end_time

fetch_games_in_window(archives, month_games, start_time, end_time) ==
    IF archives = <<>> THEN <<>>
    ELSE LET relevant_urls ==
                 month_urls_for_window(archives, start_time, end_time)
             all_games == ExtendAll(month_games, relevant_urls)
             Keep(game) == InTimeWindow(game, start_time, end_time)
             filtered_games == SelectSeq(all_games, Keep)
         IN  sort_by_end_time(filtered_games)

\* the archives a player can have, the windows and the end times of the
\* model: day 25 is in 2024/01, 45 in 2024/02, 65 in 2024/03
WindowArchives == {ArchiveUrl(2024, 1), ArchiveUrl(2024, 2)}
Windows == {<<25, 45>>, <<45, 65>>, <<25, 25>>}
EndTimes == {NoneInt, 25, 45}

InitWindow ==
    /\ detector_idle
    /\ fcall \in {[fn |-> "fetch_games_in_window", archives |-> archives,
                   month_games |-> month_games,
                   start_time |-> window[1], end_time |-> window[2]] :
                     archives \in SeqsUpTo(WindowArchives, MaxArchives),
                     month_games \in [WindowArchives ->
                                         SeqsUpTo(EndTimes, MaxMonthGames)],
                     window \in Windows}
    /\ fret = PendingValue

WindowCall ==
    /\ fcall.fn = "fetch_games_in_window"
    /\ fret = PendingValue
    /\ fret' = [shape |-> "returned",
                value |-> fetch_games_in_window(fcall.archives,
                              fcall.month_games, fcall.start_time,
                              fcall.end_time)]
    /\ UNCHANGED <<fcall, detector_vars>>

NextWindow == WindowCall

SpecWindow == InitWindow /\ [][NextWindow]_vars

----------------------------------------------------------------------------
(* main.py: the player loop again, keeping what the first player's call    *)
(* did.  The first call of a run starts from the empty cache; a later call *)
(* for the same player and games is that call in a run that processed      *)
(* other players first.  fetch_player_stats is asked at most once per      *)
(* username in a run, so its answers are the same for both calls.          *)

NoReference == [shape |-> "none"]

\* how a call of analyze_player_streaks ended: the streaks it returned or
\* the exception main.py logs at line 297
Outcome == [pc |-> pc, exc |-> exc, result |-> result]

OrderGameLists == {GamesOf(ks) : ks \in SeqsUpTo(RunKinds, 1)}

InitOrder ==
    /\ detector_idle
    /\ fcall = [fn |-> "main"]
    /\ fret = NoReference

OrderFirstPlayer ==
    /\ fcall.fn = "main"
    /\ pc = "ready"
    /\ \E p \in RunPlayers, g \in OrderGameLists : StartPlayer(p, g)
    /\ UNCHANGED <<fcall, fret>>

OrderNextPlayer ==
    /\ fcall.fn = "main"
    /\ pc \in {"returned", "raised"}
    /\ \E p \in RunPlayers, g \in OrderGameLists : StartPlayer(p, g)
    /\ fret' = IF fret = NoReference
               THEN [shape |-> "first", player |-> player, games |-> games,
                     outcome |-> Outcome]
               ELSE fret
    /\ UNCHANGED fcall

NextOrder ==
    \/ OrderFirstPlayer
    \/ OrderNextPlayer
    \/ GameSkipped
    \/ GameRaises
    \/ GameNotWon
    \/ GameWon
    \/ EndOfInput

SpecOrder == InitOrder /\ [][NextOrder]_vars

----------------------------------------------------------------------------
(* What the claims call a usable game, a win and a non-win, read off the   *)
(* game record itself                                                      *)

SubjectIs(side) ==
    side.username # NoneStr /\ Lower(side.username) = Lower(player.username)

ClaimUsable(g) ==
    /\ g.end_time # NoneInt
    /\ ~Falsy(g.rules) /\ ~Falsy(g.time_class)
    /\ SubjectIs(g.white) \/ SubjectIs(g.black)

SubjectTag(g) == IF SubjectIs(g.white) THEN g.white.result ELSE g.black.result
SubjectRating(g) == IF SubjectIs(g.white) THEN g.white.rating ELSE g.black.rating
OpponentRating(g) == IF SubjectIs(g.white) THEN g.black.rating ELSE g.white.rating

ClaimWin(g) == ClaimUsable(g) /\ SubjectTag(g) = "win"
ClaimNonWin(g) == ClaimUsable(g) /\ SubjectTag(g) # "win"

Terminated == pc \in {"returned", "raised"}

\* every side of every game carries a username
AllNamed(gs) ==
    \A k \in 1..Len(gs) :
        gs[k].white.username # NoneStr /\ gs[k].black.username # NoneStr

\* number of maximal runs of wins among the usable games of gs
RECURSIVE NumRuns(_, _)
NumRuns(gs, open) ==
    IF gs = <<>> THEN 0
    ELSE IF ClaimWin(Head(gs))
         THEN (IF open THEN 0 ELSE 1) + NumRuns(Tail(gs), TRUE)
    ELSE IF ClaimNonWin(Head(gs)) THEN NumRuns(Tail(gs), FALSE)
    ELSE NumRuns(Tail(gs), open)

NumWins(gs) == Cardinality({k \in 1..Len(gs) : ClaimWin(gs[k])})

FiftyPercent == <<Threshold("<=50%", Half)>>

\* The detector never gets past a win: no streak is ever open or emitted.
\* This is why the statements about emitted streaks (C1, C2) have no
\* reachable instance.
NoStreakEverOpen ==
    /\ current_streak_games = <<>>
    /\ streaks = <<>>
    /\ result = <<>>
    /\ classify_count = 0

----------------------------------------------------------------------------
(* Claims *)

\* C3: a usable game whose subject tag is not "win" leaves the detector
\* idle, and a usable game whose subject tag is "win" (whatever the
\* opponent's tag) extends the open streak by one, so that the win after a
\* non-win opens a streak of length 1.
C3_NonWinEndsWinExtends ==
    [][(InLoop /\ AllNamed(<<games[i]>>)) =>
         /\ ClaimNonWin(games[i]) =>
              /\ current_streak_games' = <<>>
              /\ current_win_probabilities' = <<>>
              /\ streak_start_time' = NoneInt
              /\ pc' = "running" /\ i' = i + 1
         /\ ClaimWin(games[i]) =>
              Len(current_streak_games') = Len(current_streak_games) + 1
      ]_vars

\* C4: a call on wins of equal-rated players (probability 1/2 each, no
\* cached stats) with unusable games in between, under the threshold
\* [("<=50%", 0.5)], returns one streak whose length is the number of
\* usable wins: the unusable games neither break nor extend it.
C4_SkippedGamesInvisible ==
    ( /\ Terminated
      /\ thresholds = FiftyPercent
      /\ cache_at_call = EmptyDict
      /\ NumWins(games) >= 1
      /\ \A k \in 1..Len(games) :
            \/ ~ClaimUsable(games[k]) /\ AllNamed(<<games[k]>>)
            \/ /\ ClaimWin(games[k])
               /\ SubjectRating(games[k]) = 1500
               /\ OpponentRating(games[k]) = 1500 )
    => /\ pc = "returned"
       /\ Len(result) = 1
       /\ result[1].length = NumWins(games)

\* C5: every run of wins is classified exactly once, the run that is open
\* when the input ends included, and an input without a win yields
\* nothing.
C5_FinalizedExactlyOnce ==
    (Terminated /\ AllNamed(games)) =>
        /\ classify_count = NumRuns(games, FALSE)
        /\ Len(result) <= classify_count
        /\ NumRuns(games, FALSE) = 0 => result = <<>>

\* C6: classify_streak_probability returns the label of the first pair in
\* list order whose cutoff is >= the probability, None when there is none;
\* for [("<=5%", 0.05), ("<=1%", 0.01)] and 0.005 it returns "<=5%".
C6_FirstMatchInListOrder ==
    fret # Pending =>
        LET q == fcall.probability
            t == fcall.thresholds
            M == {k \in 1..Len(t) : Leq(q, t[k].cutoff)}
        IN  /\ M = {} => fret = NoneStr
            /\ M # {} => \E k \in M : /\ \A j \in M : k <= j
                                      /\ fret = t[k].label
            /\ ( /\ q = Rat(1, 200)
                 /\ t = <<Threshold("<=5%", Rat(1, 20)),
                          Threshold("<=1%", Rat(1, 100))>> )
               => fret = "<=5%"

C6_Witness ==
    /\ fret = "<=5%"
    /\ fcall.probability = Rat(1, 200)
    /\ fcall.thresholds = <<Threshold("<=5%", Rat(1, 20)),
                            Threshold("<=1%", Rat(1, 100))>>

\* C7: for [win(1000), win(2000), loss(3000), win(4000)] between 1500-rated
\* players with no RD data and thresholds [("<=50%", 0.5)] the call returns
\* exactly two streaks, of length 2 (probability 1/4) and of length 1
\* (probability 1/2, equal to the cutoff), in this order.
C7_InclusiveBoundaryExample ==
    ( /\ Terminated
      /\ games = GamesOf(<<"W", "W", "L", "W">>)
      /\ thresholds = FiftyPercent
      /\ \A u \in DOMAIN stats_cache : stats_cache[u] = EmptyDict )
    => /\ pc = "returned"
       /\ Len(result) = 2
       /\ result[1].length = 2 /\ result[1].p_combined = Rat(1, 4)
       /\ result[2].length = 1 /\ result[2].p_combined = Half

\* C8: a won game with the subject's or the opponent's rating missing is
\* appended to the streak with probability 0.5 and the raw ratings as the
\* estimated ratings.
C8_MissingRatingIsNeutral ==
    [][( /\ InLoop
         /\ ClaimWin(games[i])
         /\ AllNamed(<<games[i]>>)
         /\ SubjectRating(games[i]) = NoneInt
              \/ OpponentRating(games[i]) = NoneInt )
       => /\ pc' = "running" /\ i' = i + 1
          /\ Len(current_streak_games') = Len(current_streak_games) + 1
          /\ LET v == current_streak_games'[Len(current_streak_games')]
             IN  /\ v.p_win = Half
                 /\ v.estimated_winner_rating = SubjectRating(games[i])
                 /\ v.estimated_loser_rating = OpponentRating(games[i])
      ]_vars

\* C9: detect_win_streaks never ends in an exception.
C9_NeverRaises == pc # "raised"

\* C10: analyze_player_streaks on an empty game list returns [] without
\* entering the detector, without a stats fetch and with the cache as it
\* was.
C10_EmptyInputLeavesCache ==
    (pc = "returned" /\ games = <<>>) =>
        /\ result = <<>>
        /\ ~detect_called
        /\ fetch_log = <<>>
        /\ stats_cache = cache_at_call

C10_Witness ==
    /\ pc = "returned"
    /\ games = <<>>
    /\ result = <<>>
    /\ stats_cache # EmptyDict

C12_BothEntriesAfterWin ==
    [][(InLoop /\ ClaimWin(games[i]) /\ AllNamed(<<games[i]>>)) =>
         /\ Lower(Analysis.opponent_username) \in DOMAIN stats_cache'
         /\ Lower(player.username) \in DOMAIN stats_cache'
      ]_vars

\* C13: the dispatcher yields "unavailable" when a rating is missing;
\* otherwise the Elo expectancy when rd_loser is unknown, whatever
\* rd_winner is; otherwise the single-sided Glicko expectancy when
\* rd_winner is unknown; otherwise the symmetric expectancy, at estimated
\* pre-game values when estimate_pregame is true and at the post-game
\* values when it is false.
C13_FormulaFromPresence ==
    fret # PendingValue =>
        IF fcall.r_winner = NoneInt \/ fcall.r_loser = NoneInt
        THEN fret.shape = "None"
        ELSE /\ fret.shape = "float"
             /\ fret.formula =
                  IF fcall.rd_loser = NoneInt THEN "elo"
                  ELSE IF fcall.rd_winner = NoneInt THEN "glicko_single"
                  ELSE IF fcall.estimate_pregame THEN "symmetric_pre"
                  ELSE "symmetric_post"
             /\ fcall.rd_loser = NoneInt =>
                  fret.p = expected_win_prob_elo(fcall.r_winner,
                                                 fcall.r_loser)

\* a side carries the subject's name, compared in lowercase
NamedLike(side, username) ==
    side.username # NoneStr /\ Lower(side.username) = Lower(username)

\* C14: analyze_game_from_perspective returns no result exactly when the
\* end timestamp is missing, or the ruleset or the time class is missing,
\* or the subject's lowercased name is the lowercased name of neither
\* side; in every other case it returns the rating and win flag of the
\* subject's side and the username and rating of the other side.
C14_UnusableExactly ==
    fret # PendingValue =>
        LET g == fcall.game
            is_white == NamedLike(g.white, fcall.username)
            is_black == NamedLike(g.black, fcall.username)
            unusable == \/ g.end_time = NoneInt
                        \/ Falsy(g.rules) \/ Falsy(g.time_class)
                        \/ ~(is_white \/ is_black)
            own == IF is_white THEN g.white ELSE g.black
            other == IF is_white THEN g.black ELSE g.white
        IN  IF unusable THEN fret.tag = "None"
            ELSE /\ fret.tag = "ok"
                 /\ fret.won = (own.result = "win")
                 /\ fret.my_rating = own.rating
                 /\ fret.opponent_username = other.username
                 /\ fret.opponent_rating = other.rating

\* what the claim of C15 calls a numeric "rd": a JSON number
RdOf(stats) ==
    IF ~IsDict(stats) \/ "chess_blitz" \notin DOMAIN stats THEN JNull
    ELSE IF ~IsDict(stats.chess_blitz)
            \/ "last" \notin DOMAIN stats.chess_blitz THEN JNull
    ELSE IF ~IsDict(stats.chess_blitz.last)
            \/ "rd" \notin DOMAIN stats.chess_blitz.last THEN JNull
    ELSE stats.chess_blitz.last.rd

ClaimNumeric(x) == ~IsDict(x) /\ x.type \in {"int", "float"}

\* C15: the lookup returns None whenever stats["chess_blitz"], its "last"
\* entry or its "rd" value is missing or not a number, and a value other
\* than None (also for 0) when "rd" is a number; the dispatcher leaves the
\* Elo fallback for a known loser deviation of 0 and takes it for an
\* unknown one.
C15_UnknownIsNotZero ==
    (fret # PendingValue) =>
        /\ \A side \in {[s |-> fcall.winner_stats, r |-> fret.rd_winner],
                         [s |-> fcall.loser_stats, r |-> fret.rd_loser]} :
              /\ side.r.tag = "ok"
              /\ ClaimNumeric(RdOf(side.s)) <=> side.r.value # NoneInt
        /\ fret.shape = "dispatched" =>
              /\ fret.rd_loser.value = 0 => fret.value.formula # "elo"
              /\ fret.rd_loser.value = NoneInt => fret.value.formula = "elo"
              /\ (fret.rd_loser.value # NoneInt
                    /\ fret.rd_winner.value = NoneInt)
                  => fret.value.formula = "glicko_single"

\* C18: for every pair of ratings and every pair of known deviations the
\* estimation raises no error, runs at most 50 iterations, leaves the loop
\* before the 50th only on convergence, and returns the last iterate when
\* it has not converged.
C18_EstimationAlwaysReturns ==
    /\ fret.shape # "raise"
    /\ fret.iter <= max_iter
    /\ fret.shape \in {"after_loop", "returned"} =>
          fret.converged \/ fret.iter = max_iter

\* p < 1.0
BelowOne(q) == q.n < q.d \/ (q.n = q.d /\ q.u < 0)

\* appending a probability below 1 does not increase the result
AppendNeverIncreases ==
    (fret # PendingValue /\ fret.shape = "both" /\ BelowOne(fcall.appended))
        => FloatLeq(fret.longer, fret.base)

\* C19 as stated: calculate_streak_probability([p]) is equal to p clamped
\* into [1e-15, 1 - 1e-15], and appending one more probability below 1
\* never increases the result.
C19_SingleIsClamped ==
    /\ (fret # PendingValue /\ Len(fcall.win_probabilities) = 1)
          => FloatEq(fret.base, Clamp(fcall.win_probabilities[1]))
    /\ AppendNeverIncreases

\* C19 amended: calculate_streak_probability([p]) is the clamped p up to
\* the rounding of exp(log(.)), at most 45 units in the last place (a
\* relative error below 1e-14), not always equal to it; appending one
\* more probability below 1 never increases the result.
C19_SingleIsClampedUpToRounding ==
    /\ (fret # PendingValue /\ Len(fcall.win_probabilities) = 1)
          => LET c == Clamp(fcall.win_probabilities[1])
                 r == fret.base
             IN  /\ r.n * c.d = c.n * r.d /\ r.e = c.e
                 /\ r.u - c.u <= 45 /\ c.u - r.u <= 45
    /\ AppendNeverIncreases

\* [0.1] gives 0.10000000000000002, and [0.1, 0.9999999999999999] a value
\* below it
C19_Witness ==
    /\ fret # PendingValue /\ fret.shape = "both"
    /\ fcall.win_probabilities = <<Rat(1, 10)>>
    /\ fcall.appended = AlmostOne
    /\ fret.base = [Rat(1, 10) EXCEPT !.u = 1]
    /\ fret.longer.u < fret.base.u

\* C20: on every path on which get_json returns, the last request is
\* followed by a sleep of sleep_s before the return.
C20_SleepBeforeEveryReturn ==
    fret.shape = "returned" => fret.sleep = SleepS

----------------------------------------------------------------------------
\* C21: in one get_json call the retries issued after failed requests (a
\* request exception or a status other than 200, 304, 404, 410, 429) never
\* exceed `retries`; without a 429 at most retries+1 requests are sent; and
\* the (retries+1)-th failure in a row ends the call with None.
C21_RetriesBounded ==
    /\ fret.history.retried <= fcall.retries
    /\ (fret.history.limited = 0 => fret.attempt <= fcall.retries + 1)
    /\ (fret.history.failed >= fcall.retries + 1
           => /\ fret.shape = "returned"
              /\ fret.value = "None"
              /\ fret.history.failed = fcall.retries + 1)

\* all retries used up on failures, no 429 in between
C21_Witness ==
    /\ fret.shape = "returned"
    /\ fcall.retries = DEFAULT_RETRIES
    /\ fret.history.retried = fcall.retries
    /\ fret.history.failed = fcall.retries + 1
    /\ fret.history.limited = 0
    /\ fret.value = "None"

----------------------------------------------------------------------------
\* the listings of a call that were read to their end
ListedInFull(title) ==
    /\ fcall.listing[title].kind = "players"
    /\ \A k \in DOMAIN fcall.listing[title].players :
          fcall.listing[title].players[k] # NoneStr

\* the requested titles whose complete listing has `username_lower`
TitlesListing(username_lower) ==
    {fcall.titles[k] : k \in DOMAIN fcall.titles} \cap
    {title \in RequestedTitles :
        /\ ListedInFull(title)
        /\ \E k \in DOMAIN fcall.listing[title].players :
              Lower(fcall.listing[title].players[k]) = username_lower}

HighestRanked(titles) ==
    CHOOSE t \in titles : \A other \in titles : TitleRank(t) <= TitleRank(other)

\* C22: fetch_titled_players maps each lowercase username to the
\* highest-ranked of the requested titles whose listing has that username,
\* whatever the order of the titles, and a listing that failed or is empty
\* contributes no entry.
C22_HighestRankedTitle ==
    fret.shape = "returned" =>
        /\ DOMAIN fret.players =
               {u \in {Lower(n) : n \in ListedNames \ {NoneStr}} :
                   TitlesListing(u) # {}}
        /\ \A u \in DOMAIN fret.players :
              fret.players[u] = HighestRanked(TitlesListing(u))

----------------------------------------------------------------------------
\* the calendar month of an archive has a day in [start_time, end_time]
MonthIntersectsWindow(url) ==
    \E day \in fcall.start_time..fcall.end_time :
        EndsWith(url, year_month(fromtimestamp(day)))

FirstIndex(seq, x) == CHOOSE k \in DOMAIN seq : seq[k] = x /\ \A j \in 1..(k - 1) : seq[j] # x

\* C23: month_urls_for_window returns the archives whose month intersects
\* the window, each once, in the order of the input list, and no archive
\* of a month outside the window, whatever the length of the window.
C23_ExactlyMonthsOfWindow ==
    fret # PendingValue =>
        /\ \A k \in DOMAIN fcall.archives :
              MonthIntersectsWindow(fcall.archives[k])
                  => Cardinality({j \in DOMAIN fret.value :
                                     fret.value[j] = fcall.archives[k]}) = 1
        /\ \A j \in DOMAIN fret.value :
              /\ \E k \in DOMAIN fcall.archives :
                    fcall.archives[k] = fret.value[j]
              /\ MonthIntersectsWindow(fret.value[j])
        /\ \A j, k \in DOMAIN fret.value :
              j < k => FirstIndex(fcall.archives, fret.value[j])
                          < FirstIndex(fcall.archives, fret.value[k])

----------------------------------------------------------------------------
\* the games fetch_games_in_window fetched, in fetch order
FetchedGames ==
    ExtendAll(fcall.month_games,
              month_urls_for_window(fcall.archives, fcall.start_time,
                                    fcall.end_time))

IndexIn(seq, x) == CHOOSE k \in DOMAIN seq : seq[k] = x

\* C24: fetch_games_in_window returns exactly the fetched games whose
\* end_time is an integer within [start_time, end_time], by non-decreasing
\* end_time, games of equal end_time in fetch order; and nothing for a
\* player without archives.
C24_WindowFilteredAndSorted ==
    fret # PendingValue =>
        /\ {fret.value[k] : k \in DOMAIN fret.value} =
              {FetchedGames[k] : k \in
                  {j \in DOMAIN FetchedGames :
                      /\ FetchedGames[j].end_time # NoneInt
                      /\ fcall.start_time <= FetchedGames[j].end_time
                      /\ FetchedGames[j].end_time <= fcall.end_time}}
        /\ \A j, k \in DOMAIN fret.value :
              j < k =>
                 /\ fret.value[j] # fret.value[k]
                 /\ fret.value[j].end_time <= fret.value[k].end_time
                 /\ (fret.value[j].end_time = fret.value[k].end_time
                        => IndexIn(FetchedGames, fret.value[j])
                              < IndexIn(FetchedGames, fret.value[k]))
        /\ (fcall.archives = <<>> => fret.value = <<>>)

\* two archives fetched, a game dropped for its end_time, and two games of
\* equal end_time from different archives in the result, the later archive's
\* game having been moved in front of a game of the earlier archive
C24_Witness ==
    /\ fret # PendingValue
    /\ Len(fret.value) = 3
    /\ Len(FetchedGames) = 4
    /\ fret.value[1].end_time = fret.value[2].end_time
    /\ fret.value[2].end_time < fret.value[3].end_time
    /\ fret.value[1].archive # fret.value[2].archive
    /\ fret.value[2].archive # fret.value[3].archive

----------------------------------------------------------------------------
\* C25: get_json terminates for every sequence of server outcomes, a
\* server that answers 429 to every request included: the call eventually
\* returns.
C25_GetJsonTerminates == <>(fret.shape = "returned")

----------------------------------------------------------------------------
\* C26: for fixed games, thresholds and answers of the stats source, a
\* call of analyze_player_streaks ends the same way (same streaks) with the
\* cache filled by earlier players as it did with the empty cache.
C26_SameOutcomeWhateverTheCache ==
    (/\ pc \in {"returned", "raised"}
     /\ fret # NoReference
     /\ fret.player = player
     /\ fret.games = games)
        => Outcome = fret.outcome

----------------------------------------------------------------------------
OpponentName(g) ==
    IF SubjectIs(g.white) THEN g.black.username ELSE g.white.username

\* lowercase usernames of the opponents the subject beat in `games`
BeatenOpponents ==
    {Lower(OpponentName(games[k])) :
        k \in {j \in 1..Len(games) :
                  /\ ClaimWin(games[j])
                  /\ OpponentName(games[j]) # NoneStr}}

\* C27: the cache is touched only while a win is processed, so when
\* detect_win_streaks is over the keys added to the cache are exactly the
\* lowercase usernames of the beaten opponents that were not cached before.
C27_KeysAddedAreBeatenOpponents ==
    Terminated =>
        DOMAIN stats_cache \ DOMAIN cache_at_call
            = BeatenOpponents \ DOMAIN cache_at_call

====
